---- MODULE Spec2Model ----
(***************************************************************************)
(* The COOL highlighter's tokenizer: CoolLexer (a pygments RegexLexer with *)
(* one state, 'root', and fifteen ordered rules) as it is run on a source  *)
(* text by CoolHighlighter.generate_html through pygments.highlight.       *)
(*                                                                         *)
(* A text is a sequence of one-character strings.  Offsets are 0-based as  *)
(* in Python: the character at offset p of t is t[p + 1].                  *)
(***************************************************************************)
EXTENDS Integers, Sequences, FiniteSets

VARIABLES code, text, pos, emitted, pc

vars == <<code, text, pos, emitted, pc>>

(***************************************************************************)
(* Characters and character classes of the patterns.                       *)
(***************************************************************************)
Upper == {"A","B","C","D","E","F","G","H","I","J","K","L","M",
          "N","O","P","Q","R","S","T","U","V","W","X","Y","Z"}

Lower == {"a","b","c","d","e","f","g","h","i","j","k","l","m",
          "n","o","p","q","r","s","t","u","v","w","x","y","z"}

Digit == {"0","1","2","3","4","5","6","7","8","9"}

\* \w and the class [A-Za-z0-9_]
WordChar == Upper \cup Lower \cup Digit \cup {"_"}

\* \s
Space == {" ", "\t", "\n", "\r", "\f"}

\* what a failed rule returns (re's None)
NoMatch == -1

\* the character at offset p, "" outside the text
At(t, p) == IF p >= 0 /\ p < Len(t) THEN t[p + 1] ELSE ""

\* t[p:e]
Slice(t, p, e) == SubSeq(t, p + 1, e)

\* (?i): the lowercase form of a character
ToLower(c) ==
  CASE c = "A" -> "a" [] c = "B" -> "b" [] c = "C" -> "c" [] c = "D" -> "d"
    [] c = "E" -> "e" [] c = "F" -> "f" [] c = "G" -> "g" [] c = "H" -> "h"
    [] c = "I" -> "i" [] c = "J" -> "j" [] c = "K" -> "k" [] c = "L" -> "l"
    [] c = "M" -> "m" [] c = "N" -> "n" [] c = "O" -> "o" [] c = "P" -> "p"
    [] c = "Q" -> "q" [] c = "R" -> "r" [] c = "S" -> "s" [] c = "T" -> "t"
    [] c = "U" -> "u" [] c = "V" -> "v" [] c = "W" -> "w" [] c = "X" -> "x"
    [] c = "Y" -> "y" [] c = "Z" -> "z" [] OTHER -> c

LowerText(w) == [i \in DOMAIN w |-> ToLower(w[i])]

\* \b at offset p: exactly one of the neighbours is a word character
WordBoundary(t, p) == (At(t, p - 1) \in WordChar) # (At(t, p) \in WordChar)

\* the end of the longest run of characters of class cls starting at p
RECURSIVE RunEnd(_, _, _)
RunEnd(t, p, cls) == IF At(t, p) \in cls THEN RunEnd(t, p + 1, cls) ELSE p

\* a greedy run that must be followed by \b: the regex engine backs off from
\* the longest end e down to lo until \b holds
BackOffToBoundary(t, lo, e) ==
  LET ok == {q \in lo..e : WordBoundary(t, q)}
  IN  IF ok = {} THEN NoMatch ELSE CHOOSE q \in ok : \A r \in ok : r <= q

\* the literal characters lit at offset p, compared case-insensitively if ci
Literal(t, p, lit, ci) ==
  /\ p + Len(lit) <= Len(t)
  /\ \A i \in 1..Len(lit) :
       (IF ci THEN ToLower(t[p + i]) ELSE t[p + i]) = lit[i]

(***************************************************************************)
(* The fifteen rules of CoolLexer.tokens['root'].  Each operator is the    *)
(* rule's compiled pattern applied with match(text, pos) under             *)
(* re.MULTILINE: the end offset of the match, or NoMatch.                  *)
(***************************************************************************)

\* (mutant) the line's newline is taken into the match
RECURSIVE LineEndPastNewline(_, _)
LineEndPastNewline(t, q) ==
  IF q >= Len(t) THEN q
  ELSE IF At(t, q) = "\n" THEN q + 1
  ELSE LineEndPastNewline(t, q + 1)

\* the end of the line holding offset q: the first offset at which $ holds
RECURSIVE LineEnd(_, _)
LineEnd(t, q) ==
  IF q >= Len(t) \/ At(t, q) = "\n" THEN q ELSE LineEnd(t, q + 1)

\* rule 1: --.*?$
MatchLineComment(t, p) ==
  IF At(t, p) = "-" /\ At(t, p + 1) = "-" THEN LineEnd(t, p + 2) ELSE NoMatch

\* (mutant) a greedy body: the end of the last closer at offset q or later
CloseEndGreedy(t, q) ==
  LET at == {k \in q..(Len(t) - 2) : At(t, k) = "*" /\ At(t, k + 1) = ")"}
  IN  IF at = {} THEN NoMatch
      ELSE 2 + CHOOSE k \in at : \A j \in at : j <= k

\* the end of the first closer that starts at offset q or later
RECURSIVE CloseEnd(_, _)
CloseEnd(t, q) ==
  IF q + 1 >= Len(t) THEN NoMatch
  ELSE IF At(t, q) = "*" /\ At(t, q + 1) = ")" THEN q + 2
  ELSE CloseEnd(t, q + 1)

\* rule 2: \(\*(.|\n)*?\*\)
MatchBlockComment(t, p) ==
  IF At(t, p) = "(" /\ At(t, p + 1) = "*" THEN CloseEnd(t, p + 2) ELSE NoMatch

\* the alternatives of rule 3, in the pattern's order
Keywords ==
  << <<"c","l","a","s","s">>,
     <<"i","n","h","e","r","i","t","s">>,
     <<"l","e","t">>,
     <<"i","n">>,
     <<"w","h","i","l","e">>,
     <<"l","o","o","p">>,
     <<"p","o","o","l">>,
     <<"t","h","e","n">>,
     <<"e","l","s","e">>,
     <<"f","i">>,
     <<"d","o","n","e">>,
     <<"n","e","w">>,
     <<"i","s","v","o","i","d">>,
     <<"n","o","t">>,
     <<"c","a","s","e">>,
     <<"o","f">>,
     <<"e","s","a","c">>,
     <<"i","f">> >>

\* an alternation of literals between two \b: the first alternative, in
\* order, that matches and is followed by \b
MatchWord(t, p, alts, ci) ==
  LET ok == {k \in DOMAIN alts :
               Literal(t, p, alts[k], ci) /\ WordBoundary(t, p + Len(alts[k]))}
  IN  IF ~WordBoundary(t, p) \/ ok = {} THEN NoMatch
      ELSE p + Len(alts[CHOOSE k \in ok : \A j \in ok : k <= j])

\* (mutant) rule 3 without its closing \b
MatchKeywordNoBoundary(t, p) ==
  LET ok == {k \in DOMAIN Keywords : Literal(t, p, Keywords[k], TRUE)}
  IN  IF ~WordBoundary(t, p) \/ ok = {} THEN NoMatch
      ELSE p + Len(Keywords[CHOOSE k \in ok : \A j \in ok : k <= j])

\* rule 3: (?i)\b(class|inherits|...|if)\b
MatchKeyword(t, p) == MatchWord(t, p, Keywords, TRUE)

\* the alternatives of rule 4
Booleans == << <<"t","r","u","e">>, <<"f","a","l","s","e">> >>

\* rule 4: \b(true|false)\b
MatchBoolean(t, p) == MatchWord(t, p, Booleans, FALSE)

\* a first character of class first, then a greedy run of cls, then \b
MatchRun(t, p, first, cls) ==
  IF WordBoundary(t, p) /\ At(t, p) \in first
    THEN BackOffToBoundary(t, p + 1, RunEnd(t, p + 1, cls))
    ELSE NoMatch

\* rule 5: \b([A-Z][A-Za-z0-9_]*)\b
MatchTypeName(t, p) == MatchRun(t, p, Upper, WordChar)

\* rule 6: \b([a-z_][A-Za-z0-9_]*)\b
MatchIdentifier(t, p) == MatchRun(t, p, Lower \cup {"_"}, WordChar)

\* rule 7: \b([0-9]+)\b
MatchInteger(t, p) == MatchRun(t, p, Digit, Digit)

\* ([^"\\]|\\.)*" from offset q: a backslash takes the next character with
\* it unless that is a newline ('.' does not match one) or the end
RECURSIVE StringEnd(_, _)
StringEnd(t, q) ==
  IF q >= Len(t) THEN NoMatch
  ELSE IF At(t, q) = "\"" THEN q + 1
  ELSE IF At(t, q) = "\\"
    THEN IF q + 1 < Len(t) /\ At(t, q + 1) # "\n"
           THEN StringEnd(t, q + 2)
           ELSE NoMatch
  ELSE StringEnd(t, q + 1)

\* rule 8: "([^"\\]|\\.)*"
MatchString(t, p) == IF At(t, p) = "\"" THEN StringEnd(t, p + 1) ELSE NoMatch

\* an alternation of literals: the first alternative, in order, that matches
MatchAlt(t, p, alts) ==
  LET ok == {k \in DOMAIN alts : Literal(t, p, alts[k], FALSE)}
  IN  IF ok = {} THEN NoMatch
      ELSE p + Len(alts[CHOOSE k \in ok : \A j \in ok : k <= j])

\* rule 9: <-
MatchAssign(t, p) == MatchAlt(t, p, << <<"<","-">> >>)

\* the alternatives of rule 10, in the pattern's order
Comparisons == << <<"<","=">>, <<"=",">">>, <<"<">>, <<">">> >>

\* (mutant) rule 10 with its one-character alternatives first: <|>|<=|=>
MatchComparisonShortFirst(t, p) ==
  MatchAlt(t, p, << <<"<">>, <<">">>, <<"<","=">>, <<"=",">">> >>)

\* rule 10: <=|=>|<|>
MatchComparison(t, p) == MatchAlt(t, p, Comparisons)

\* one character of a class
MatchClass(t, p, cls) == IF At(t, p) \in cls THEN p + 1 ELSE NoMatch

\* rule 11: [+\-*/]
MatchArithmetic(t, p) == MatchClass(t, p, {"+", "-", "*", "/"})

\* rule 12: [:.]
MatchTypeAccess(t, p) == MatchClass(t, p, {":", "."})

\* rule 13: [=~@]
MatchOther(t, p) == MatchClass(t, p, {"=", "~", "@"})

\* rule 14: [(){}[\],;]
MatchDelimiter(t, p) ==
  MatchClass(t, p, {"(", ")", "{", "}", "[", "]", ",", ";"})

\* rule 15: \s+
MatchWhitespace(t, p) ==
  IF At(t, p) \in Space THEN RunEnd(t, p + 1, Space) ELSE NoMatch

\* the rules by their place in the list
Rules == 1..15

RuleMatch(r, t, p) ==
  CASE r = 1  -> MatchLineComment(t, p)
    [] r = 2  -> MatchBlockComment(t, p)
    [] r = 3  -> MatchKeyword(t, p)
    [] r = 4  -> MatchBoolean(t, p)
    [] r = 5  -> MatchTypeName(t, p)
    [] r = 6  -> MatchIdentifier(t, p)
    [] r = 7  -> MatchInteger(t, p)
    [] r = 8  -> MatchString(t, p)
    [] r = 9  -> MatchAssign(t, p)
    [] r = 10 -> MatchComparison(t, p)
    [] r = 11 -> MatchArithmetic(t, p)
    [] r = 12 -> MatchTypeAccess(t, p)
    [] r = 13 -> MatchOther(t, p)
    [] r = 14 -> MatchDelimiter(t, p)
    [] r = 15 -> MatchWhitespace(t, p)

\* the token type each rule yields
RuleType(r) ==
  CASE r = 1  -> "Comment.Single"
    [] r = 2  -> "Comment.Multiline"
    [] r = 3  -> "Keyword"
    [] r = 4  -> "Keyword.Constant"
    [] r = 5  -> "Name.Class"
    [] r = 6  -> "Name.Variable"
    [] r = 7  -> "Number.Integer"
    [] r = 8  -> "String"
    [] r \in {9, 10, 11, 13} -> "Operator"
    [] r = 12 -> "Text"
    [] r = 14 -> "Punctuation"
    [] r = 15 -> "Whitespace"

\* no rule: the scanner's fallback
NoRule == 0

\* the scanner's for-loop over the rules from rule r on: the first rule, top
\* to bottom, whose pattern matches at p, or NoRule
RECURSIVE FirstFrom(_, _, _)
FirstFrom(r, t, p) ==
  IF r \notin Rules THEN NoRule
  ELSE IF RuleMatch(r, t, p) # NoMatch THEN r
  ELSE FirstFrom(r + 1, t, p)

FirstMatch(t, p) == FirstFrom(1, t, p)

(***************************************************************************)
(* What Lexer.get_tokens does to the text before the scan, under the       *)
(* options CoolLexer() is built with (stripnl, ensurenl; no stripall, no   *)
(* tab expansion).  A leading byte order mark would be dropped as well;    *)
(* the sources below hold none.                                            *)
(***************************************************************************)
RECURSIVE ReplaceCRLF(_)
ReplaceCRLF(t) ==
  IF t = <<>> THEN <<>>
  ELSE IF Len(t) >= 2 /\ t[1] = "\r" /\ t[2] = "\n"
    THEN <<"\n">> \o ReplaceCRLF(SubSeq(t, 3, Len(t)))
    ELSE <<t[1]>> \o ReplaceCRLF(Tail(t))

ReplaceCR(t) == [i \in DOMAIN t |-> IF t[i] = "\r" THEN "\n" ELSE t[i]]

\* text.strip('\n')
StripNL(t) ==
  LET keep == {i \in DOMAIN t : t[i] # "\n"}
  IN  IF keep = {} THEN <<>>
      ELSE SubSeq(t, CHOOSE i \in keep : \A j \in keep : i <= j,
                     CHOOSE i \in keep : \A j \in keep : j <= i)

EnsureNL(t) ==
  IF t # <<>> /\ t[Len(t)] = "\n" THEN t ELSE t \o <<"\n">>

Preprocess(t) == EnsureNL(StripNL(ReplaceCR(ReplaceCRLF(t))))

(***************************************************************************)
(* The source texts handed to generate_html: every concatenation of at     *)
(* most MaxParts pieces drawn from one of four families of pieces.         *)
(***************************************************************************)
MaxParts == 3

WordPieces ==
  { <<"c","l","a","s","s">>, <<"C","l","a","s","s">>, <<"i","f","y">>,
    <<"t","r","u","e">>, <<"T","r","u","e">>, <<"f","A","L","S","E">>,
    <<"_">>, <<"1">>, <<" ">>, <<"-">> }

CommentPieces ==
  { <<"(","*">>, <<"*",")">>, <<")">>, <<"-">>, <<"-","-">>, <<"<">>,
    <<"a">>, <<" ">>, <<"\n">>, <<"#">> }

StringPieces ==
  { <<"\"">>, <<"\\">>, <<"a">>, <<"=">>, <<" ">>, <<"\n">>, <<"\r">>,
    <<"#">> }

OperatorPieces ==
  { <<"<">>, <<"-">>, <<"=">>, <<">">>, <<"+">>, <<":">>, <<"(">>,
    <<"*">>, <<"a">>, <<"\t">> }

RECURSIVE Concats(_, _)
Concats(pieces, n) ==
  IF n = 0 THEN {<<>>}
  ELSE LET shorter == Concats(pieces, n - 1)
       IN  shorter \cup {s \o x : s \in shorter, x \in pieces}

\* one character of each kind the rules tell apart
ScanChars ==
  { <<"a">>, <<"1">>, <<"-">>, <<"(">>, <<"*">>, <<")">>, <<"\"">>, <<"#">> }

ShortSources == Concats(ScanChars, MaxParts)

Sources ==
  Concats(WordPieces, MaxParts) \cup Concats(CommentPieces, MaxParts)
    \cup Concats(StringPieces, MaxParts) \cup Concats(OperatorPieces, MaxParts)

(***************************************************************************)
(* generate_html(filename, code): highlight(code, CoolLexer(), formatter)  *)
(* draws the tokens of code one at a time.  emitted is the sequence of     *)
(* tokens yielded so far, each with the offset it was cut at, its type,    *)
(* its text and the rule that produced it.                                 *)
(***************************************************************************)
Token(i, ty, v, r) == [index |-> i, ttype |-> ty, value |-> v, rule |-> r]

Init ==
  /\ code = <<>>
  /\ text = <<>>
  /\ pos = 0
  /\ emitted = <<>>
  /\ pc = "idle"

\* generate_html is called with a source; get_tokens normalises it and the
\* scan starts at offset 0
GenerateHtmlOf(sources) ==
  /\ pc = "idle"
  /\ \E c \in sources :
       /\ code' = c
       /\ text' = Preprocess(c)
  /\ pos' = 0
  /\ pc' = "scan"
  /\ UNCHANGED emitted

GenerateHtml == GenerateHtmlOf(Sources)

GenerateHtmlShort == GenerateHtmlOf(ShortSources)

\* the offset after a match that ends at e
AfterMatch(e) == e

\* (mutant) the offset is left where it is
AfterErrorStuck(p) == p

\* the offset after a character no rule matches
AfterError(p) == p + 1

\* a rule matches at pos: its token is yielded and pos moves to the match's end
MatchRule ==
  /\ pc = "scan"
  /\ \E r \in {FirstMatch(text, pos)} \ {NoRule} :
       \E e \in {RuleMatch(r, text, pos)} :
         /\ emitted' = Append(emitted, Token(pos, RuleType(r), Slice(text, pos, e), r))
         /\ pos' = AfterMatch(e)
  /\ UNCHANGED <<code, text, pc>>

\* no rule matches at pos and there is a character: it is yielded alone, as
\* Whitespace if it is a newline and as Error otherwise
ErrorChar ==
  /\ pc = "scan"
  /\ FirstMatch(text, pos) = NoRule
  /\ pos < Len(text)
  /\ emitted' = Append(emitted,
                  Token(pos, IF At(text, pos) = "\n" THEN "Whitespace" ELSE "Error",
                        <<At(text, pos)>>, NoRule))
  /\ pos' = AfterError(pos)
  /\ UNCHANGED <<code, text, pc>>

\* no rule matches at pos and there is no character (IndexError): the end
EndOfText ==
  /\ pc = "scan"
  /\ FirstMatch(text, pos) = NoRule
  /\ pos >= Len(text)
  /\ pc' = "done"
  /\ UNCHANGED <<code, text, pos, emitted>>

\* one step of the scanner's loop
Scan == MatchRule \/ ErrorChar \/ EndOfText

Next == GenerateHtml \/ Scan

Spec == Init /\ [][Next]_vars

\* the scanner is a plain loop: once generate_html has called it, it runs
\* while it can.  Nothing obliges anyone to call generate_html.  The sources
\* are the texts of at most MaxParts characters of ScanChars.
FairNext == GenerateHtmlShort \/ Scan

FairSpec == Init /\ [][FairNext]_vars /\ WF_vars(Scan)

(***************************************************************************)
(* Vocabulary of the properties.                                           *)
(***************************************************************************)
Tokens == DOMAIN emitted

\* the offset a token ends at
EndOf(tok) == tok.index + Len(tok.value)

\* the texts of the tokens, concatenated in order
RECURSIVE Joined(_)
Joined(toks) ==
  IF toks = <<>> THEN <<>> ELSE toks[1].value \o Joined(Tail(toks))

\* each token starts where the one before it ends, the first at offset 0
Contiguous(toks) ==
  \A i \in DOMAIN toks :
    toks[i].index = (IF i = 1 THEN 0 ELSE EndOf(toks[i - 1]))

\* the literal lit stands at offset p of t
Has(t, p, lit) == Literal(t, p, lit, FALSE)

\* a word begins at offset q: a word character not preceded by one
WordStart(t, q) == At(t, q) \in WordChar /\ At(t, q - 1) \notin WordChar

\* the end of the maximal word that begins at q
WordEnd(t, q) ==
  CHOOSE e \in (q + 1)..Len(t) :
    /\ \A k \in q..(e - 1) : At(t, k) \in WordChar
    /\ At(t, e) \notin WordChar

KeywordSet == {Keywords[k] : k \in DOMAIN Keywords}

\* the token at offset q comes from a spot where no rule matched
Unmatched(i) == FirstMatch(text, emitted[i].index) = NoRule

(***************************************************************************)
(* C1.  Reconstruction: when generate_html has drawn every token of a      *)
(* source, the tokens' spans are contiguous from offset 0 and their texts  *)
(* concatenated in order are exactly the source it was given.              *)
(***************************************************************************)
Reconstruction ==
  pc = "done" => Contiguous(emitted) /\ Joined(emitted) = code

(***************************************************************************)
(* C2.  Unrecognized character: the scan stops at an offset where no rule  *)
(* matches, so no token is ever produced at an offset beyond one.          *)
(***************************************************************************)
UnrecognizedCharacterStopsScan ==
  \A i \in Tokens : Unmatched(i) => \A j \in Tokens : emitted[j].index <= emitted[i].index

(***************************************************************************)
(* C3.  Unterminated string: after a double quote at which the scan stood  *)
(* and that no unescaped double quote follows, nothing is emitted as a     *)
(* name, a keyword or an operator.                                         *)
(***************************************************************************)
RECURSIVE ClosingQuoteFrom(_, _)
ClosingQuoteFrom(t, q) ==
  IF q >= Len(t) THEN FALSE
  ELSE IF At(t, q) = "\"" THEN TRUE
  ELSE IF At(t, q) = "\\" THEN ClosingQuoteFrom(t, q + 2)
  ELSE ClosingQuoteFrom(t, q + 1)

OrdinaryTypes ==
  {"Name.Variable", "Name.Class", "Keyword", "Keyword.Constant", "Operator"}

UnterminatedStringStopsScan ==
  \A i \in Tokens :
    LET q == emitted[i].index
    IN  At(text, q) = "\"" /\ ~ClosingQuoteFrom(text, q + 1)
          => \A j \in Tokens : j > i => emitted[j].ttype \notin OrdinaryTypes

(***************************************************************************)
(* C4.  Unterminated block comment: where the scan stood at a block        *)
(* comment's opener that no later closer follows, the opener's two         *)
(* characters are not emitted as a Punctuation token followed by an        *)
(* arithmetic Operator token.                                              *)
(***************************************************************************)
UnterminatedCommentStopsScan ==
  \A i \in Tokens :
    LET q == emitted[i].index
    IN  /\ Has(text, q, <<"(", "*">>)
        /\ \A k \in (q + 1)..Len(text) : ~Has(text, k, <<"*", ")">>)
        => ~ /\ emitted[i].ttype = "Punctuation"
             /\ i + 1 \in Tokens
             /\ emitted[i + 1].rule = 11
             /\ emitted[i + 1].value = <<"*">>

(***************************************************************************)
(* C5.  Boolean literals are case-insensitive: a token cut at the start of *)
(* a whole word whose lowercase form is true or false is that word, with   *)
(* the type Keyword.Constant.                                              *)
(***************************************************************************)
BooleanSet == {Booleans[k] : k \in DOMAIN Booleans}

BooleanAnyCase ==
  \A i \in Tokens :
    LET q == emitted[i].index
        w == Slice(text, q, WordEnd(text, q))
    IN  WordStart(text, q) /\ LowerText(w) \in BooleanSet
          => emitted[i].ttype = "Keyword.Constant" /\ emitted[i].value = w

(***************************************************************************)
(* C6.  Keyword classification is whole-word and case-insensitive: every   *)
(* maximal word that starts with a letter or an underscore and that the    *)
(* scan has reached is exactly one token, with the word's own casing, and  *)
(* that token is a Keyword exactly when the word's lowercase form is one   *)
(* of the 18 keywords.  (A word inside a comment or a string literal is    *)
(* part of that token and is not classified.)                              *)
(***************************************************************************)
Enclosing == {"Comment.Single", "Comment.Multiline", "String"}

NextNewline(t, q) ==
  CHOOSE e \in q..Len(t) :
    /\ e = Len(t) \/ At(t, e) = "\n"
    /\ \A k \in q..(e - 1) : At(t, k) # "\n"

IsMinus(tok) == tok.rule = 11 /\ tok.value = <<"-">>

LineCommentNotMinus ==
  \A i \in Tokens :
    LET q == emitted[i].index
    IN  /\ Has(text, q, <<"-", "-">>) =>
             /\ emitted[i].ttype = "Comment.Single"
             /\ EndOf(emitted[i]) = NextNewline(text, q)
        /\ emitted[i].ttype = "Comment.Single" =>
             \A k \in DOMAIN emitted[i].value : emitted[i].value[k] # "\n"
        /\ At(text, q) = "-" /\ At(text, q + 1) # "-" => IsMinus(emitted[i])
        /\ i + 1 \in Tokens => ~(IsMinus(emitted[i]) /\ IsMinus(emitted[i + 1]))

\* a line comment that stops before a newline inside the text, and a lone
\* minus after it
LineCommentWitness ==
  \E i \in Tokens :
    /\ emitted[i].ttype = "Comment.Single"
    /\ At(text, EndOf(emitted[i])) = "\n"
    /\ EndOf(emitted[i]) + 1 < Len(text)
    /\ \E j \in Tokens : j > i /\ IsMinus(emitted[j])

(***************************************************************************)
(* C8 as stated.  Where the scan stood at a block comment's opener and a   *)
(* closer begins two or more characters later, the token is a              *)
(* Comment.Multiline that holds exactly one closer, as its last two        *)
(* characters.                                                             *)
(***************************************************************************)
ClosersIn(v) == {k \in 0..(Len(v) - 2) : Has(v, k, <<"*", ")">>)}

BlockCommentOneCloser ==
  \A i \in Tokens :
    LET q == emitted[i].index
    IN  /\ Has(text, q, <<"(", "*">>)
        /\ \E k \in (q + 2)..Len(text) : Has(text, k, <<"*", ")">>)
        => /\ emitted[i].ttype = "Comment.Multiline"
           /\ ClosersIn(emitted[i].value) = {Len(emitted[i].value) - 2}

(***************************************************************************)
(* C8 as amended.  Where the scan stood at a block comment's opener and a  *)
(* closer begins two or more characters later, the token is a              *)
(* Comment.Multiline that ends with the nearest such closer: no other      *)
(* closer begins in it after the opener (one may share its star with the   *)
(* opener, at offset 1 of the token), and the next token starts right      *)
(* after it.                                                               *)
(***************************************************************************)
BlockCommentNearestCloser ==
  \A i \in Tokens :
    LET q == emitted[i].index
        v == emitted[i].value
    IN  /\ Has(text, q, <<"(", "*">>)
        /\ \E k \in (q + 2)..Len(text) : Has(text, k, <<"*", ")">>)
        => /\ emitted[i].ttype = "Comment.Multiline"
           /\ v = Slice(text, q, EndOf(emitted[i]))
           /\ ClosersIn(v) \ {1} = {Len(v) - 2}
           /\ i + 1 \in Tokens => emitted[i + 1].index = EndOf(emitted[i])

\* a comment that holds a further opener, closed at the first closer, with
\* the rest of the text lexed after it
BlockCommentWitness ==
  \E i \in Tokens :
    /\ emitted[i].ttype = "Comment.Multiline"
    /\ Has(emitted[i].value, 2, <<"(", "*">>)
    /\ i + 1 \in Tokens
    /\ emitted[i + 1].index = EndOf(emitted[i])

(***************************************************************************)
(* C9.  Termination: the scan starts at offset 0; every step of it yields  *)
(* one more token, which is not empty, keeps the tokens yielded before,    *)
(* and moves the offset forward by that token's length; and the scan       *)
(* eventually ends, at the offset that is the length of the text.          *)
(***************************************************************************)
ScanStep ==
  pc = "scan" /\ pc' = "scan" =>
    /\ Len(emitted') = Len(emitted) + 1
    /\ SubSeq(emitted', 1, Len(emitted)) = emitted
    /\ emitted'[Len(emitted')].index = pos
    /\ emitted'[Len(emitted')].value # <<>>
    /\ pos' = pos + Len(emitted'[Len(emitted')].value)
    /\ pos' > pos

ScanTerminates ==
  /\ [](pc = "scan" /\ emitted = <<>> => pos = 0)
  /\ [][ScanStep]_vars
  /\ [](pc = "done" => pos = Len(text))
  /\ pc = "scan" ~> pc = "done"

\* a scan of several tokens, one of them of a character no rule matches, has
\* ended
ScanTerminatesWitness ==
  /\ pc = "done"
  /\ pos = Len(text)
  /\ Len(emitted) >= 4
  /\ \E i \in Tokens : emitted[i].ttype = "Error"

(***************************************************************************)
(* C10.  Rule order never overrides a longer match: at every offset the    *)
(* scan stands at, no rule after the first one that matches has a longer   *)
(* match, nor has any alternative of rule 10 after the one taken, so that  *)
(* the rule a longest-match scanner takes (ties to the earlier rule) is    *)
(* the rule the scanner takes.                                             *)
(***************************************************************************)
\* the rule a longest-match scanner takes, given each rule's match: the
\* longest match, the earlier rule on a tie
LongestOf(ends) ==
  LET ok == {r \in Rules : ends[r] # NoMatch}
  IN  IF ok = {} THEN NoRule
      ELSE CHOOSE r \in ok : \A s \in ok :
             ends[s] < ends[r] \/ (ends[s] = ends[r] /\ r <= s)

\* the rule a first-match scanner takes, given each rule's match
FirstOf(ends) ==
  LET ok == {r \in Rules : ends[r] # NoMatch}
  IN  IF ok = {} THEN NoRule ELSE CHOOSE r \in ok : \A s \in ok : r <= s

FirstMatchIsLongest ==
  pc = "scan" =>
    \A first \in {FirstMatch(text, pos)} \ {NoRule} :
    \A ends \in {<<RuleMatch(1, text, pos), RuleMatch(2, text, pos),
                   RuleMatch(3, text, pos), RuleMatch(4, text, pos),
                   RuleMatch(5, text, pos), RuleMatch(6, text, pos),
                   RuleMatch(7, text, pos), RuleMatch(8, text, pos),
                   RuleMatch(9, text, pos), RuleMatch(10, text, pos),
                   RuleMatch(11, text, pos), RuleMatch(12, text, pos),
                   RuleMatch(13, text, pos), RuleMatch(14, text, pos),
                   RuleMatch(15, text, pos)>>} :
      /\ \A r \in Rules : r > first => ends[r] <= ends[first]
      /\ \A k \in DOMAIN Comparisons :
           Has(text, pos, Comparisons[k]) => pos + Len(Comparisons[k]) <= ends[10]
      /\ LongestOf(ends) = first
      /\ FirstOf(ends) = first

\* the assignment arrow has been emitted by rule 9 where rule 10 matches too,
\* with a shorter match
FirstMatchIsLongestWitness ==
  \E i \in Tokens :
    /\ emitted[i].rule = 9
    /\ RuleMatch(10, text, emitted[i].index) # NoMatch
    /\ RuleMatch(10, text, emitted[i].index) < EndOf(emitted[i])

====
